---- MODULE Spec2Model ----
(***************************************************************************)
(* State-machine model of download_rpm_glb_images.py: main() parses a list *)
(* of avatar identifiers, submits one process_avatar task per identifier   *)
(* to a ThreadPoolExecutor, each task calls download_file for the model    *)
(* (GLB) and then for the four pose images, and main() tallies the results *)
(* in as_completed order.                                                  *)
(*                                                                         *)
(* The filesystem follows POSIX: an open file object keeps writing to its   *)
(* file after the path was renamed or removed, and open(tmp, "wb")         *)
(* truncates the file the path names.                                      *)
(***************************************************************************)
EXTENDS Integers, Sequences, FiniteSets, TLC

VARIABLES
    line,       \* main: the line of the input file being parsed (line 117)
    nread,      \* (history) number of lines read from the input file
    nblank,     \* (history) number of lines read that were neither added nor counted bad
    bad,        \* main: the count of bad lines (line 114)
    ids,        \* main: the parsed identifier list (line 116-124)
    threads,    \* args.threads
    mkdirFails, \* environment: identifiers whose directory os.makedirs cannot create
    faults,     \* environment: responses so far that were not a 200 with a full body
    mainpc,     \* position of main()
    exitcode,   \* value returned by main(), -1 while it has not returned
    submitted,  \* number of futures created by the list comprehension
    queue,      \* ThreadPoolExecutor work queue: submitted tasks no worker took yet
    worker,     \* worker thread -> task it executes (0 = idle)
    task,       \* future/task index -> state of its process_avatar call
    fs,         \* path -> the file it names: [present, data: chunks in it, body: chunks
                \* of the response body it is written from]
    waiting,    \* as_completed was called (its waiter is installed on the futures)
    acFinished, \* as_completed: futures found finished when it was called, not yet yielded
    acWaiter,   \* as_completed: waiter.finished_futures, in completion order
    completed,  \* (history) the futures in the order they finished, each with
                \* whether as_completed had been called by then
    consumed,   \* task indices whose result the for-loop body processed, in order
    ok_glb, fail_glb, png_ok, png_fail   \* main's tallies (line 139-140)

vars == << line, nread, nblank, bad, ids, threads, mkdirFails, faults, mainpc, exitcode, submitted, queue, worker, task,
           fs, waiting, acFinished, acWaiter, completed, consumed,
           ok_glb, fail_glb, png_ok, png_fail >>

poolvars == << worker, acWaiter, completed >>
mainvars == << mainpc, exitcode, submitted, waiting, acFinished, consumed,
               ok_glb, fail_glb, png_ok, png_fail >>
parsevars == << line, nread, nblank, bad >>
envvars  == << parsevars, ids, threads, mkdirFails >>

----------------------------------------------------------------------------
(* Bounds of the model *)

MaxIds     == 2   \* longest identifier list
MaxThreads == 2   \* largest --threads value
MaxChunks  == 1   \* chunks of a non-empty response body
MaxFaults  == 1   \* failed or empty responses and broken streams of a run of several tasks
MaxLines   == 3   \* lines of the input file followed one by one
MaxTokens  == 4   \* tokens that make up an input line

----------------------------------------------------------------------------
(* Constants of the program *)

POSES      == << "power-stance", "relaxed", "standing", "thumbs-up" >>
EXPRESSION == "happy"
NPoses     == Len(POSES)
OutRoot    == "out"

\* Hex identifiers the input file may hold; the list uses the first ones in
\* order of first occurrence (identifiers are interchangeable).
HexIds == << "a1", "b2", "c3", "d4" >>

Max(S) == CHOOSE x \in S : \A y \in S : y <= x

IdLists ==
    { s \in UNION { [1..n -> 1..MaxIds] : n \in 0..MaxIds } :
        \A i \in 1..Len(s) : s[i] <= 1 + Max({0} \cup { s[j] : j \in 1..(i-1) }) }

Tasks == DOMAIN task
AvatarId(t) == HexIds[ids[t]]

----------------------------------------------------------------------------
(* Paths: process_avatar line 67-72 and 87-90, download_file line 35 *)

avatar_dir(id) == OutRoot \o "/" \o id
glb_path(id)   == avatar_dir(id) \o "/" \o id \o ".glb"
png_path(id, pose) ==
    avatar_dir(id) \o "/" \o id \o "__pose-" \o pose \o "__expr-" \o EXPRESSION \o ".png"
tmp(out_path)  == out_path \o ".part"

\* resource 0 is the model, resource r in 1..NPoses the image of POSES[r]
Resources == 0..NPoses
OutPath(id, r) == IF r = 0 THEN glb_path(id) ELSE png_path(id, POSES[r])

FinalPaths == { OutPath(HexIds[i], r) : i \in 1..MaxIds, r \in Resources }
AllPaths   == FinalPaths \cup { tmp(p) : p \in FinalPaths }

----------------------------------------------------------------------------
(* Filesystem *)

NoFile == [ present |-> FALSE, data |-> {}, body |-> 0 ]
NewFile(n) == [ present |-> TRUE, data |-> {}, body |-> n ]

exists(p)  == fs[p].present
getsize(p) == Max({0} \cup fs[p].data)
Body(n)    == 1..n
Complete(p) == fs[p].data = Body(fs[p].body)

----------------------------------------------------------------------------
(* Task records *)

\* fd tells where the file of the task's open file object is now: at the
\* temporary path, at the final path (it was renamed while open), or nowhere
\* (it was removed or replaced while open). tried, gets and pre are history:
\* the poses download_file was called for, the GETs issued, and whether the
\* task started with its files settled.
NewTask == [ st |-> "new", pc |-> "-", res |-> 0, fd |-> "none", pos |-> 0, len |-> 0,
             e |-> "", glb |-> "None", png_ok |-> 0, png_fail |-> 0,
             tried |-> << >>, gets |-> 0, pre |-> FALSE ]

Running(t)   == task[t].st = "running"
Terminated(t) == task[t].st \in { "returned", "raised" }

----------------------------------------------------------------------------
(* process_avatar, line 74-98: what the task does with a download_file result *)

Failed(reason) == "FAILED (" \o reason \o ")"

Cleared(r) == [ r EXCEPT !.pc = "-", !.fd = "none", !.pos = 0, !.len = 0, !.e = "" ]

\* AfterCall without the early return of line 75-77
AfterCall_NoShortCircuit(r, ok, reason) ==
    IF r.res = 0
    THEN [ Cleared(r) EXCEPT !.glb = IF ok THEN reason ELSE Failed(reason),
                             !.res = 1, !.pc = "check" ]
    ELSE LET c == IF ok THEN [ Cleared(r) EXCEPT !.png_ok = @ + 1 ]
                        ELSE [ Cleared(r) EXCEPT !.png_fail = @ + 1 ]
         IN  IF r.res = NPoses
             THEN [ c EXCEPT !.st = "returned" ]
             ELSE [ c EXCEPT !.res = @ + 1, !.pc = "check" ]

\* AfterCall leaving the pose loop at the first image failure
AfterCall_BreakOnFail(r, ok, reason) ==
    IF r.res = 0
    THEN IF ~ok
         THEN [ Cleared(r) EXCEPT !.glb = Failed(reason), !.st = "returned" ]
         ELSE [ Cleared(r) EXCEPT !.glb = reason, !.res = 1, !.pc = "check" ]
    ELSE LET c == IF ok THEN [ Cleared(r) EXCEPT !.png_ok = @ + 1 ]
                        ELSE [ Cleared(r) EXCEPT !.png_fail = @ + 1 ]
         IN  IF r.res = NPoses \/ ~ok
             THEN [ c EXCEPT !.st = "returned" ]
             ELSE [ c EXCEPT !.res = @ + 1, !.pc = "check" ]

AfterCall(r, ok, reason) ==
    IF r.res = 0
    THEN IF ~ok
         THEN [ Cleared(r) EXCEPT !.glb = Failed(reason), !.st = "returned" ]
         ELSE [ Cleared(r) EXCEPT !.glb = reason, !.res = 1, !.pc = "check" ]
    ELSE LET c == IF ok THEN [ Cleared(r) EXCEPT !.png_ok = @ + 1 ]
                        ELSE [ Cleared(r) EXCEPT !.png_fail = @ + 1 ]
         IN  IF r.res = NPoses
             THEN [ c EXCEPT !.st = "returned" ]
             ELSE [ c EXCEPT !.res = @ + 1, !.pc = "check" ]

\* an exception that leaves process_avatar: the future holds the exception
Raise(r) == [ Cleared(r) EXCEPT !.st = "raised" ]

\* A run of one task may see every response fail; a run of several tasks sees
\* at most MaxFaults responses that are not a 200 with a full body.
FaultBudget == IF Len(ids) <= 1 THEN NPoses + 1 ELSE MaxFaults

\* The open file objects of the other tasks after task t renamed (moved) or
\* removed the temporary file of its resource: a file object follows its file.
Rebound(t, tk, moved) ==
    [ u \in DOMAIN tk |->
        IF u # t /\ ids[u] = ids[t] /\ tk[u].res = tk[t].res /\ tk[u].fd # "none"
        THEN [ tk[u] EXCEPT !.fd = IF @ = "tmp" THEN (IF moved THEN "final" ELSE "unlinked")
                                   ELSE IF @ = "final" /\ moved THEN "unlinked" ELSE @ ]
        ELSE tk[u] ]

\* One step of task t: its new record and the new filesystem; fault tells that
\* the network misbehaved in this step, unlink that the step renamed ("moved")
\* or removed ("removed") the temporary file. A task that ends frees its worker
\* thread and notifies as_completed's waiter.
TaskStep(t, rec, f2, fault, unlink) ==
    /\ fault => faults < FaultBudget
    /\ faults' = IF fault THEN faults + 1 ELSE faults
    /\ task' = [ (IF unlink = "no" THEN task ELSE Rebound(t, task, unlink = "moved"))
                   EXCEPT ![t] = rec ]
    /\ fs' = f2
    /\ IF rec.st \in { "returned", "raised" }
       THEN /\ worker' = [ w \in DOMAIN worker |-> IF worker[w] = t THEN 0 ELSE worker[w] ]
            /\ acWaiter' = IF waiting THEN Append(acWaiter, t) ELSE acWaiter
            /\ completed' = Append(completed, [ task |-> t, waited |-> waiting ])
       ELSE UNCHANGED poolvars
    /\ UNCHANGED << envvars, mainvars, queue >>

----------------------------------------------------------------------------
(* ThreadPoolExecutor worker: an idle worker thread takes the oldest work item *)

\* (history) the five files of task t's identifier are all there and non-empty
\* and no running task works on that identifier
Settled(t) ==
    /\ \A r \in Resources :
          LET f == fs[OutPath(AvatarId(t), r)] IN f.present /\ f.data # {}
    /\ \A u \in Tasks : (u # t /\ ids[u] = ids[t]) => ~Running(u)

\* PA_Start by a worker thread that is still executing a task
PA_Start_Busy(w) ==
    /\ w \in DOMAIN worker
    /\ queue # << >>
    /\ worker' = [ worker EXCEPT ![w] = Head(queue) ]
    /\ queue' = Tail(queue)
    /\ task' = [ task EXCEPT ![Head(queue)] =
                  [ @ EXCEPT !.st = "running", !.pc = "mkdir", !.pre = Settled(Head(queue)) ] ]
    /\ UNCHANGED << envvars, faults, mainvars, fs, acWaiter, completed >>

PA_Start(w) ==
    /\ w \in DOMAIN worker
    /\ worker[w] = 0
    /\ queue # << >>
    /\ worker' = [ worker EXCEPT ![w] = Head(queue) ]
    /\ queue' = Tail(queue)
    /\ task' = [ task EXCEPT ![Head(queue)] =
                  [ @ EXCEPT !.st = "running", !.pc = "mkdir", !.pre = Settled(Head(queue)) ] ]
    /\ UNCHANGED << envvars, faults, mainvars, fs, acWaiter, completed >>

\* PA_Mkdir going to the image loop without the model download
PA_Mkdir_SkipModel(t) ==
    /\ Running(t) /\ task[t].pc = "mkdir"
    /\ IF ids[t] \in mkdirFails
       THEN TaskStep(t, Raise(task[t]), fs, FALSE, "no")
       ELSE TaskStep(t, [ task[t] EXCEPT !.pc = "check", !.res = 1 ], fs, FALSE, "no")

\* process_avatar line 57-72: session, result record, safe_mkdir(avatar_dir)
PA_Mkdir(t) ==
    /\ Running(t) /\ task[t].pc = "mkdir"
    /\ IF ids[t] \in mkdirFails
       THEN TaskStep(t, Raise(task[t]), fs, FALSE, "no")
       ELSE TaskStep(t, [ task[t] EXCEPT !.pc = "check", !.res = 0 ], fs, FALSE, "no")

----------------------------------------------------------------------------
(* download_file *)

\* download_file without the skip of line 32-33
Present_Never(p) == FALSE

\* line 32: the test that skips the download
Present(p) == exists(p) /\ getsize(p) > 0

\* line 32-33: skip when the destination exists with non-zero size
DF_Check(t) ==
    /\ Running(t) /\ task[t].pc = "check"
    /\ LET r   == task[t]
           out == OutPath(AvatarId(t), r.res)
           r1  == IF r.res = 0 THEN r ELSE [ r EXCEPT !.tried = Append(@, POSES[r.res]) ]
       IN  IF Present(out)
           THEN TaskStep(t, AfterCall(r1, TRUE, "exists"), fs, FALSE, "no")
           ELSE TaskStep(t, [ r1 EXCEPT !.pc = "get" ], fs, FALSE, "no")

\* what the remote service answers to one GET: no answer (connection error,
\* timeout), a status other than 200, or 200 with an empty or a full body
Responses ==
    { [ kind |-> "error", status |-> 0, len |-> 0 ],
      [ kind |-> "http", status |-> 404, len |-> 0 ],
      [ kind |-> "http", status |-> 200, len |-> 0 ],
      [ kind |-> "http", status |-> 200, len |-> MaxChunks ] }

Faulty(resp) == ~(resp.kind = "http" /\ resp.status = 200 /\ resp.len = MaxChunks)

\* line 39
StatusReason(status) == IF status = 404 THEN "http_404" ELSE "http_other"

\* line 40, open(tmp, "wb"): the file the path names is truncated (the file
\* objects already open on it stay on it), else a new file is created
OpenTrunc(p, n) == [ fs EXCEPT ![p] = NewFile(n) ]

\* line 37-40: session.get, the status test, open(tmp, "wb")
DF_Get(t) ==
    /\ Running(t) /\ task[t].pc = "get"
    /\ \E resp \in Responses :
         LET r  == [ task[t] EXCEPT !.gets = @ + 1 ]
             p  == tmp(OutPath(AvatarId(t), r.res))
         IN  CASE resp.kind = "error" ->
                    TaskStep(t, [ r EXCEPT !.pc = "exc", !.e = "error_ConnectionError" ],
                             fs, TRUE, "no")
               [] resp.kind = "http" /\ resp.status # 200 ->
                    TaskStep(t, AfterCall(r, FALSE, StatusReason(resp.status)),
                             fs, TRUE, "no")
               [] OTHER ->
                    IF resp.len = 0
                    THEN \* empty body: the file is created and closed at once
                         TaskStep(t, [ r EXCEPT !.pc = "replace" ],
                                  OpenTrunc(p, resp.len), Faulty(resp), "no")
                    ELSE TaskStep(t, [ r EXCEPT !.pc = "write", !.fd = "tmp", !.pos = 0,
                                                !.len = resp.len ],
                                  OpenTrunc(p, resp.len), Faulty(resp), "no")

\* f.write(chunk) at position pos of the file the file object is on
WriteChunk(t, r) ==
    LET out == OutPath(AvatarId(t), r.res)
        p   == IF r.fd = "tmp" THEN tmp(out) ELSE out
    IN  IF r.fd \in { "tmp", "final" }
        THEN [ fs EXCEPT ![p].data = @ \cup { r.pos + 1 } ]
        ELSE fs

\* line 41-43: one chunk of iter_content written at the file object's position,
\* or an exception of the stream or of the write; the file is closed when the
\* with-block is left
DF_Write(t) ==
    /\ Running(t) /\ task[t].pc = "write"
    /\ LET r == task[t]
       IN  \/ TaskStep(t, [ r EXCEPT !.pc = "exc", !.fd = "none",
                                     !.e = "error_ChunkedEncodingError" ],
                       fs, TRUE, "no")
           \/ IF r.pos + 1 = r.len
              THEN TaskStep(t, [ r EXCEPT !.pc = "replace", !.fd = "none", !.pos = @ + 1 ],
                            WriteChunk(t, r), FALSE, "no")
              ELSE TaskStep(t, [ r EXCEPT !.pos = @ + 1 ], WriteChunk(t, r), FALSE, "no")

\* line 44-45: os.replace(tmp, out_path); FileNotFoundError when tmp is gone
DF_Replace(t) ==
    /\ Running(t) /\ task[t].pc = "replace"
    /\ LET r   == task[t]
           out == OutPath(AvatarId(t), r.res)
       IN  IF ~exists(tmp(out))
           THEN TaskStep(t, [ r EXCEPT !.pc = "exc", !.e = "error_FileNotFoundError" ],
                         fs, FALSE, "no")
           ELSE TaskStep(t, AfterCall(r, TRUE, "downloaded"),
                         [ fs EXCEPT ![out] = fs[tmp(out)], ![tmp(out)] = NoFile ],
                         FALSE, "moved")

\* DF_Except issuing the request again instead of returning the failure
DF_Except_Retry(t) ==
    /\ Running(t) /\ task[t].pc = "exc"
    /\ LET r == task[t]
       IN  IF exists(tmp(OutPath(AvatarId(t), r.res)))
           THEN TaskStep(t, [ r EXCEPT !.pc = "remove" ], fs, FALSE, "no")
           ELSE TaskStep(t, [ r EXCEPT !.pc = "get", !.e = "" ], fs, FALSE, "no")

\* line 46-47: except Exception, then the test os.path.exists(tmp)
DF_Except(t) ==
    /\ Running(t) /\ task[t].pc = "exc"
    /\ LET r == task[t]
       IN  IF exists(tmp(OutPath(AvatarId(t), r.res)))
           THEN TaskStep(t, [ r EXCEPT !.pc = "remove" ], fs, FALSE, "no")
           ELSE TaskStep(t, AfterCall(r, FALSE, r.e), fs, FALSE, "no")

\* line 48-49: os.remove(tmp) inside the handler; when tmp is gone by now it
\* raises FileNotFoundError, which nothing catches
DF_Remove(t) ==
    /\ Running(t) /\ task[t].pc = "remove"
    /\ LET r == task[t]
           p == tmp(OutPath(AvatarId(t), r.res))
       IN  IF ~exists(p)
           THEN TaskStep(t, Raise(r), fs, FALSE, "no")
           ELSE TaskStep(t, AfterCall(r, FALSE, r.e), [ fs EXCEPT ![p] = NoFile ],
                         FALSE, "removed")

----------------------------------------------------------------------------
(* main *)

StartsWith(s, prefix) ==
    /\ Len(s) >= Len(prefix)
    /\ SubSeq(s, 1, Len(prefix)) = prefix

\* ExitCode returning 1 for a failed model
ExitCode_One(failed) == IF failed = 0 THEN 0 ELSE 1

\* line 164
ExitCode(failed) == IF failed = 0 THEN 0 ELSE 2

\* line 116-128: the identifier list is read; an empty list ends main with 1
Main_Parse ==
    /\ mainpc = "start"
    /\ IF ids = << >>
       THEN mainpc' = "returned" /\ exitcode' = 1
       ELSE mainpc' = "pool" /\ exitcode' = exitcode
    /\ UNCHANGED << envvars, faults, submitted, queue, worker, task, fs, waiting,
                    acFinished, acWaiter, completed, consumed, ok_glb, fail_glb, png_ok, png_fail >>

\* line 142: ThreadPoolExecutor(max_workers=args.threads) raises ValueError
\* for max_workers <= 0
Main_Pool ==
    /\ mainpc = "pool"
    /\ IF threads <= 0
       THEN mainpc' = "crashed" /\ worker' = worker
       ELSE mainpc' = "submit" /\ worker' = [ w \in 1..threads |-> 0 ]
    /\ UNCHANGED << envvars, faults, exitcode, submitted, queue, task, fs, waiting,
                    acFinished, acWaiter, completed, consumed, ok_glb, fail_glb, png_ok, png_fail >>

\* line 143-146: pool.submit for the next identifier of the list
Main_Submit ==
    /\ mainpc = "submit"
    /\ submitted < Len(ids)
    /\ submitted' = submitted + 1
    /\ task' = Append(task, [ NewTask EXCEPT !.st = "queued" ])
    /\ queue' = Append(queue, submitted + 1)
    /\ UNCHANGED << envvars, faults, mainpc, exitcode, worker, fs, waiting,
                    acFinished, acWaiter, completed, consumed, ok_glb, fail_glb, png_ok, png_fail >>

\* line 148: as_completed(futures) notes the futures already finished and
\* installs its waiter on the others
Main_AsCompleted ==
    /\ mainpc = "submit"
    /\ submitted = Len(ids)
    /\ mainpc' = "loop"
    /\ waiting' = TRUE
    /\ acFinished' = { t \in Tasks : Terminated(t) }
    /\ UNCHANGED << envvars, faults, exitcode, submitted, queue, worker, task, fs,
                    acWaiter, completed, consumed, ok_glb, fail_glb, png_ok, png_fail >>

\* NextYield of a loop over the futures in submission order, waiting for each
NextYield_InSubmissionOrder ==
    { t \in Tasks : t = Len(consumed) + 1 /\ Terminated(t) }

\* the future as_completed yields next: one of those found finished at the
\* call (a set, in no particular order), then the others as they complete
NextYield == IF acFinished # {} THEN acFinished
             ELSE IF acWaiter # << >> THEN { Head(acWaiter) } ELSE {}

\* Main_Consume counting every result as a fetched model (the else of line
\* 153 lost)
Main_Consume_NoElse ==
    /\ mainpc = "loop"
    /\ \E t \in NextYield :
         /\ acFinished' = acFinished \ {t}
         /\ acWaiter' = IF acFinished # {} THEN acWaiter ELSE Tail(acWaiter)
         /\ IF task[t].st = "raised"
            THEN /\ mainpc' = "raising"
                 /\ UNCHANGED << consumed, ok_glb, fail_glb, png_ok, png_fail >>
            ELSE /\ mainpc' = mainpc
                 /\ consumed' = Append(consumed, t)
                 /\ fail_glb' = IF StartsWith(task[t].glb, "FAILED") THEN fail_glb + 1 ELSE fail_glb
                 /\ ok_glb' = ok_glb + 1
                 /\ png_ok' = png_ok + task[t].png_ok
                 /\ png_fail' = png_fail + task[t].png_fail
    /\ UNCHANGED << envvars, faults, exitcode, submitted, queue, worker, task, fs, waiting,
                    completed >>

\* line 149-158: f.result() and the tallies; f.result() re-raises the
\* exception of a task that raised
Main_Consume ==
    /\ mainpc = "loop"
    /\ \E t \in NextYield :
         /\ acFinished' = acFinished \ {t}
         /\ acWaiter' = IF acFinished # {} THEN acWaiter ELSE Tail(acWaiter)
         /\ IF task[t].st = "raised"
            THEN /\ mainpc' = "raising"
                 /\ UNCHANGED << consumed, ok_glb, fail_glb, png_ok, png_fail >>
            ELSE /\ mainpc' = mainpc
                 /\ consumed' = Append(consumed, t)
                 /\ IF StartsWith(task[t].glb, "FAILED")
                    THEN fail_glb' = fail_glb + 1 /\ ok_glb' = ok_glb
                    ELSE ok_glb' = ok_glb + 1 /\ fail_glb' = fail_glb
                 /\ png_ok' = png_ok + task[t].png_ok
                 /\ png_fail' = png_fail + task[t].png_fail
    /\ UNCHANGED << envvars, faults, exitcode, submitted, queue, worker, task, fs, waiting,
                    completed >>

\* line 160-164: every future was yielded; the pool is shut down, the summary
\* printed and the exit code returned
Main_Summary ==
    /\ mainpc = "loop"
    /\ Len(consumed) = Len(ids)
    /\ mainpc' = "returned"
    /\ exitcode' = ExitCode(fail_glb)
    /\ UNCHANGED << envvars, faults, submitted, queue, worker, task, fs, waiting,
                    acFinished, acWaiter, completed, consumed, ok_glb, fail_glb, png_ok, png_fail >>

\* an exception leaves the with-block: ThreadPoolExecutor.__exit__ waits for
\* every submitted task, then main ends with the traceback
Main_Crash ==
    /\ mainpc = "raising"
    /\ \A t \in Tasks : Terminated(t)
    /\ mainpc' = "crashed"
    /\ UNCHANGED << envvars, faults, exitcode, submitted, queue, worker, task, fs, waiting,
                    acFinished, acWaiter, completed, consumed, ok_glb, fail_glb, png_ok, png_fail >>

----------------------------------------------------------------------------
(* Input parsing: parse_id (line 13-24) and the loop of main (line 116-124) *)

\* what str.strip() removes when it has no argument
Whitespace == { " ", "\t", "\n", "\r", "\f" }

\* [a-fA-F0-9]
HexDigits == { "0", "1", "2", "3", "4", "5", "6", "7", "8", "9",
               "a", "b", "c", "d", "e", "f", "A", "B", "C", "D", "E", "F" }

\* The pieces input lines are made of: white space, the two quotes, a run of
\* hex digits, a letter that is no hex digit, the suffix; a line read from the
\* file ends with a newline, except the last line of a file that has none.
Tokens == { " ", "\"", "'", "aF0", "g", ".glb" }

RECURSIVE Words(_)
Words(n) == IF n = 0 THEN { "" }
            ELSE LET W == Words(n - 1) IN W \cup { w \o k : w \in W, k \in Tokens }

Lines == LET W == Words(MaxTokens) IN W \cup { w \o "\n" : w \in W }

RECURSIVE lstrip(_, _)
lstrip(s, chars) ==
    IF Len(s) > 0 /\ SubSeq(s, 1, 1) \in chars
    THEN lstrip(SubSeq(s, 2, Len(s)), chars) ELSE s

RECURSIVE rstrip(_, _)
rstrip(s, chars) ==
    IF Len(s) > 0 /\ SubSeq(s, Len(s), Len(s)) \in chars
    THEN rstrip(SubSeq(s, 1, Len(s) - 1), chars) ELSE s

\* str.strip(chars): leading and trailing characters of the set are removed
strip(s, chars) == rstrip(lstrip(s, chars), chars)

\* parse_id returns None where it finds no identifier; line 119 tests the
\* result for truth, which an identifier (never empty) passes and None fails
None == ""

RECURSIVE HexRun(_)
\* the length of the longest run of hex digits s starts with
HexRun(s) ==
    IF Len(s) > 0 /\ SubSeq(s, 1, 1) \in HexDigits
    THEN 1 + HexRun(SubSeq(s, 2, Len(s))) ELSE 0

\* ID_OR_GLB_RE.match(s), line 13: group 1 of ^([a-fA-F0-9]+)(?:\.glb)?$ or
\* None. The group takes the whole hex run (a shorter one is followed by a
\* hex digit, which matches neither \. nor $); $ matches at the end of s and
\* before a newline that ends s.
ID_OR_GLB_RE(s) ==
    LET n    == HexRun(s)
        rest == SubSeq(s, n + 1, Len(s))
    IN  IF n >= 1 /\ rest \in { "", "\n", ".glb", ".glb\n" }
        THEN SubSeq(s, 1, n) ELSE None

\* parse_id keeping the suffix (group 0 instead of group 1)
parse_id_WholeMatch(ln) ==
    LET s == strip(strip(strip(ln, Whitespace), { "\"" }), { "'" })
    IN  IF s = "" THEN None
        ELSE IF ID_OR_GLB_RE(s) # None THEN s ELSE None

\* line 19-24
parse_id(ln) ==
    LET s == strip(strip(strip(ln, Whitespace), { "\"" }), { "'" })
    IN  IF s = "" THEN None ELSE ID_OR_GLB_RE(s)

\* line 117: the for statement reads the next line of the file
Main_ReadLine ==
    /\ mainpc = "readline"
    /\ nread < MaxLines
    /\ \E ln \in Lines : line' = ln
    /\ nread' = nread + 1
    /\ mainpc' = "parseline"
    /\ UNCHANGED << nblank, bad, ids, threads, mkdirFails, faults, exitcode, submitted, queue,
                    worker, task, fs, waiting, acFinished, acWaiter, completed, consumed,
                    ok_glb, fail_glb, png_ok, png_fail >>

\* line 118-122: the body of the loop for the line read
Main_ParseLine ==
    /\ mainpc = "parseline"
    /\ LET i == parse_id(line)
       IN  IF i # None
           THEN ids' = Append(ids, i) /\ UNCHANGED << bad, nblank >>
           ELSE IF strip(line, Whitespace) # ""
                THEN bad' = bad + 1 /\ UNCHANGED << ids, nblank >>
                ELSE nblank' = nblank + 1 /\ UNCHANGED << ids, bad >>
    /\ line' = ""
    /\ mainpc' = "readline"
    /\ UNCHANGED << nread, threads, mkdirFails, faults, exitcode, submitted, queue,
                    worker, task, fs, waiting, acFinished, acWaiter, completed, consumed,
                    ok_glb, fail_glb, png_ok, png_fail >>

----------------------------------------------------------------------------
(* Specification *)

Init ==
    /\ line = "" /\ nread = 0 /\ nblank = 0 /\ bad = 0
    /\ ids \in IdLists
    /\ threads \in 0..MaxThreads
    /\ mkdirFails \in SUBSET { ids[i] : i \in DOMAIN ids }
    /\ faults = 0
    /\ mainpc = "start"
    /\ exitcode = -1
    /\ submitted = 0
    /\ queue = << >>
    /\ worker = << >>
    /\ task = << >>
    /\ fs = [ p \in AllPaths |-> NoFile ]
    /\ waiting = FALSE
    /\ acFinished = {}
    /\ acWaiter = << >>
    /\ completed = << >>
    /\ consumed = << >>
    /\ ok_glb = 0 /\ fail_glb = 0 /\ png_ok = 0 /\ png_fail = 0

Next ==
    \/ Main_Parse
    \/ Main_Pool
    \/ Main_Submit
    \/ Main_AsCompleted
    \/ Main_Consume
    \/ Main_Summary
    \/ Main_Crash
    \/ \E w \in 1..MaxThreads : PA_Start(w)
    \/ \E t \in Tasks : PA_Mkdir(t)
    \/ \E t \in Tasks : DF_Check(t)
    \/ \E t \in Tasks : DF_Get(t)
    \/ \E t \in Tasks : DF_Write(t)
    \/ \E t \in Tasks : DF_Replace(t)
    \/ \E t \in Tasks : DF_Except(t)
    \/ \E t \in Tasks : DF_Remove(t)

Spec == Init /\ [][Next]_vars

\* The parse loop of main followed line by line: the input file is any
\* sequence of at most MaxLines lines.
ParseInit ==
    /\ line = "" /\ nread = 0 /\ nblank = 0 /\ bad = 0
    /\ ids = << >>
    /\ threads = 1
    /\ mkdirFails = {}
    /\ faults = 0
    /\ mainpc = "readline"
    /\ exitcode = -1
    /\ submitted = 0
    /\ queue = << >>
    /\ worker = << >>
    /\ task = << >>
    /\ fs = [ p \in AllPaths |-> NoFile ]
    /\ waiting = FALSE
    /\ acFinished = {}
    /\ acWaiter = << >>
    /\ completed = << >>
    /\ consumed = << >>
    /\ ok_glb = 0 /\ fail_glb = 0 /\ png_ok = 0 /\ png_fail = 0

ParseNext == Main_ReadLine \/ Main_ParseLine

ParseSpec == ParseInit /\ [][ParseNext]_vars

----------------------------------------------------------------------------
(* Properties *)

IsFailed(t) == StartsWith(task[t].glb, "FAILED")
Returned(t) == task[t].st = "returned"

\* the step in which a download_file call of task t returns failure: from the
\* status test (line 39) or from the handler (line 49)
FailReturn(t) ==
    /\ Running(t)
    /\ task[t].pc \in { "get", "exc", "remove" }
    /\ task'[t].pc \in { "check", "-" }
    /\ task'[t].st # "raised"

\* the task's model fetch failed: it returned without reaching the images
ModelFailed(t) == Returned(t) /\ task[t].res = 0

NoImages(r) == r.tried = << >> /\ r.png_ok = 0 /\ r.png_fail = 0

\* C1: when the model fetch of a task returns failure, process_avatar returns
\* at once with the model marked FAILED, png_ok = 0 and png_fail = 0, and no
\* task whose model is marked FAILED ever called download_file for an image.
C1_ShortCircuit ==
    /\ [] (\A t \in Tasks : IsFailed(t) => Returned(t) /\ NoImages(task[t]))
    /\ [][ \A t \in Tasks :
             (FailReturn(t) /\ task[t].res = 0) =>
                 /\ task'[t].st = "returned"
                 /\ StartsWith(task'[t].glb, "FAILED")
                 /\ NoImages(task'[t]) ]_vars

C1_Witness == \E t \in Tasks : ModelFailed(t) /\ IsFailed(t) /\ task[t].gets = 1

\* C2: a task calls download_file for the poses in POSES order, each at most
\* once, and a task that returns with its model fetched has called it for all
\* four, whatever failed, so that png_ok + png_fail = 4.
C2_FourImageAttempts ==
    \A t \in Tasks :
        /\ task[t].tried = SubSeq(POSES, 1, Len(task[t].tried))
        /\ (Returned(t) /\ ~IsFailed(t)) =>
               /\ task[t].tried = POSES
               /\ task[t].png_ok + task[t].png_fail = 4

C2_Witness ==
    \E t \in Tasks : Returned(t) /\ ~IsFailed(t) /\ task[t].png_fail = 2 /\ task[t].png_ok = 2

\* C3: when main returns, its exit code is 2 exactly if some model download
\* failed, 1 exactly if the identifier list is empty, 0 otherwise; failed
\* images do not change it.
C3_ExitCode ==
    mainpc = "returned" =>
        /\ exitcode = 2 <=> (\E t \in Tasks : ModelFailed(t))
        /\ exitcode = 1 <=> ids = << >>
        /\ exitcode = 0 <=> (ids # << >> /\ ~(\E t \in Tasks : ModelFailed(t)))

C3_Witness == mainpc = "returned" /\ exitcode = 0 /\ png_fail > 0

\* C4 as stated: a second process_avatar run for an identifier (the pool has
\* one thread, so it starts after the first ended) issues no GET.
C4_SecondRunNoGet ==
    threads = 1 =>
        \A t1, t2 \in Tasks : (t1 < t2 /\ ids[t1] = ids[t2]) => task[t2].gets = 0

\* C4 amended: a process_avatar run that starts when the five files of its
\* identifier are all present and non-empty, and no other task is working on
\* that identifier, issues no GET, reports the model as "exists" and four
\* image successes, and changes no file.
C4_SettledRunIsNoOp ==
    /\ [] (\A t \in Tasks : task[t].pre =>
              /\ task[t].gets = 0
              /\ task[t].st # "raised"
              /\ Returned(t) => /\ task[t].glb = "exists"
                                /\ task[t].png_ok = 4
                                /\ task[t].png_fail = 0)
    /\ [][ \A t \in Tasks : (task[t].pre /\ task'[t] # task[t]) => fs' = fs ]_vars

C4_Witness == \E t \in Tasks : task[t].pre /\ Returned(t)

\* a GET is issued for the final path p in this step
GetFor(p) ==
    \E t \in Tasks :
        /\ Running(t) /\ task[t].pc = "get"
        /\ OutPath(AvatarId(t), task[t].res) = p
        /\ task'[t].gets = task[t].gets + 1

\* C5: once a final path holds a non-empty file, no step issues a GET for it
\* and no step replaces or changes the file.
C5_NeverRefetched ==
    [][ \A p \in FinalPaths :
          (fs[p].present /\ fs[p].data # {}) => (fs'[p] = fs[p] /\ ~GetFor(p)) ]_vars

\* C6: a file at a final path always holds the complete response body.
C6_NoPartialAtFinal == \A p \in FinalPaths : exists(p) => Complete(p)

\* C7: when a download_file call returns failure, no file is left at its
\* temporary path and its final path is as it was.
C7_FailureLeavesNoPart ==
    [][ \A t \in Tasks :
          FailReturn(t) =>
              LET out == OutPath(AvatarId(t), task[t].res)
              IN  ~fs'[tmp(out)].present /\ fs'[out] = fs[out] ]_vars

\* C8: no process_avatar call raises, so f.result() never raises in main.
C8_NeverRaises == mainpc # "raising" /\ \A t \in Tasks : task[t].st # "raised"

InDownload(t) ==
    Running(t) /\ task[t].pc \in { "check", "get", "write", "replace", "exc", "remove" }

\* C9: no two download_file calls that execute at the same time have the same
\* final path or the same temporary path.
C9_NoSharedPath ==
    \A t, u \in Tasks :
        (t # u /\ InDownload(t) /\ InDownload(u)) =>
            LET pt == OutPath(AvatarId(t), task[t].res)
                pu == OutPath(AvatarId(u), task[u].res)
            IN  pt # pu /\ tmp(pt) # tmp(pu)

\* C10: at most `threads` tasks execute at any moment: every executing task is
\* the task of exactly one worker thread, the others submitted wait in the
\* queue, and a worker thread leaves its task only when the task has ended.
C10_BoundedConcurrency ==
    /\ [] /\ Cardinality({ t \in Tasks : Running(t) }) <= threads
          /\ \A t \in Tasks :
                /\ Running(t) <=> (\E w \in DOMAIN worker : worker[w] = t)
                /\ task[t].st = "queued" <=> (\E i \in DOMAIN queue : queue[i] = t)
          /\ \A w1, w2 \in DOMAIN worker :
                (worker[w1] # 0 /\ worker[w1] = worker[w2]) => w1 = w2
    /\ [][ \A w \in DOMAIN worker :
             (worker[w] # 0 /\ worker'[w] # worker[w]) =>
                 (worker'[w] = 0 /\ task'[worker[w]].st \in { "returned", "raised" }) ]_vars

C10_Witness ==
    /\ Cardinality({ t \in Tasks : Running(t) }) = threads
    /\ queue # << >>

InConsumed(t) == \E i \in DOMAIN consumed : consumed[i] = t

\* C11: every submitted task runs to its end and its result is consumed by
\* the aggregation loop, whatever happened to the other tasks: when main has
\* ended, every submitted task has ended and every result returned by a task
\* has been consumed.
C11_RunToCompletion ==
    mainpc \in { "returned", "crashed" } =>
        \A t \in Tasks : Terminated(t) /\ (Returned(t) => InConsumed(t))

\* every response so far was a 200 with the complete, non-empty body
AllAnswered200 == faults = 0

\* C12: for a list of N >= 1 identifiers and a pool of at least one thread,
\* if every request was answered 200 with a body, the summary of main reports
\* N models fetched, none failed, 4 * N images fetched, none failed, and the
\* exit code is 0.
C12_AllSuccess ==
    (mainpc = "returned" /\ Len(ids) >= 1 /\ threads >= 1 /\ AllAnswered200) =>
        /\ ok_glb = Len(ids)
        /\ fail_glb = 0
        /\ png_ok = NPoses * Len(ids)
        /\ png_fail = 0
        /\ exitcode = 0

\* the GETs task record r can have issued: one per download_file call it has
\* made, the call in progress included once it is past session.get
GetsBound(r) ==
    IF r.st \in { "new", "queued" } \/ r.pc \in { "mkdir", "check", "get" }
    THEN r.res ELSE r.res + 1

\* the download_file call of task record r is past its session.get
PastGet(r) == r.pc \in { "write", "replace", "exc", "remove" }

\* C13: a submitted task is executed once (it goes from queued to running to
\* ended and never back), every download_file call issues at most one GET,
\* and a task calls download_file at most once per resource, so that a task
\* has issued at most one GET per resource it has reached; no step takes a
\* call that has issued its GET back to the GET.
C13_SingleAttempt ==
    /\ [] (\A t \in Tasks :
              /\ task[t].gets <= GetsBound(task[t])
              /\ task[t].res <= NPoses
              /\ Len(task[t].tried) <= task[t].res)
    /\ [][ \A t \in Tasks :
             /\ (task'[t].st = "running" /\ task[t].st # "running") => task[t].st = "queued"
             /\ Terminated(t) => task'[t] = task[t]
             /\ (Running(t) /\ task[t].pc # "mkdir") => task'[t].pc # "mkdir"
             /\ task'[t].res >= task[t].res
             /\ task'[t].gets # task[t].gets =>
                   /\ task[t].pc = "get"
                   /\ task'[t].gets = task[t].gets + 1
             /\ (PastGet(task[t]) /\ task'[t].res = task[t].res) =>
                   task'[t].pc # "get" ]_vars

C13_Witness ==
    \E t \in Tasks : Returned(t) /\ task[t].gets = NPoses + 1 /\ task[t].png_fail = NPoses

ModelFetched(r) == r.glb \in { "exists", "downloaded" }

\* the points of download_file from which a call returns to process_avatar
ReturnPoint(r) == r.pc \in { "check", "get", "replace", "exc", "remove" }

\* C15: a task begins download_file for an image only after its model call
\* returned success; it begins a call only in the step in which it is at the
\* start of download_file with no file open, the previous call having
\* returned, so it never has two fetches in flight; the image calls are made
\* one after the other in POSES order.
C15_OrderInTask ==
    /\ [] (\A t \in Tasks :
              /\ (task[t].res >= 1 \/ task[t].tried # << >>) => ModelFetched(task[t])
              /\ task[t].tried = SubSeq(POSES, 1, Len(task[t].tried))
              /\ task[t].pc \in { "-", "mkdir", "check", "get" } => task[t].fd = "none")
    /\ [][ \A t \in Tasks :
             /\ task'[t].res # task[t].res =>
                   /\ task'[t].res = task[t].res + 1
                   /\ ReturnPoint(task[t])
                   /\ task'[t].pc = "check" /\ task'[t].fd = "none"
             /\ task'[t].tried # task[t].tried =>
                   /\ task[t].pc = "check"
                   /\ ModelFetched(task[t])
                   /\ task'[t].tried = Append(task[t].tried, POSES[task[t].res]) ]_vars

C15_Witness ==
    \E t \in Tasks :
        /\ Running(t) /\ task[t].pc = "get" /\ task[t].res = 2
        /\ task[t].glb = "downloaded"
        /\ task[t].tried = << POSES[1], POSES[2] >>

RECURSIVE SumField(_, _)
\* the sum of field f of the results of the tasks listed in s
SumField(s, f) == IF s = << >> THEN 0 ELSE task[Head(s)][f] + SumField(Tail(s), f)

ConsumedOk   == { i \in DOMAIN consumed : ~IsFailed(consumed[i]) }
ConsumedFail == { i \in DOMAIN consumed : IsFailed(consumed[i]) }

\* C16: the four counters of main are the sums over the results consumed so
\* far, no result is consumed twice, and when main returns after the
\* aggregation loop every submitted identifier has been counted once: models
\* fetched + models failed is the number of identifiers, and images fetched +
\* images failed is 4 times the models fetched.
C16_Accounting ==
    /\ \A i, j \in DOMAIN consumed : consumed[i] = consumed[j] => i = j
    /\ \A i \in DOMAIN consumed : consumed[i] \in Tasks /\ Returned(consumed[i])
    /\ ok_glb = Cardinality(ConsumedOk)
    /\ fail_glb = Cardinality(ConsumedFail)
    /\ png_ok = SumField(consumed, "png_ok")
    /\ png_fail = SumField(consumed, "png_fail")
    /\ mainpc = "returned" =>
          /\ ok_glb + fail_glb = Len(ids)
          /\ Len(ids) >= 1 => submitted = Len(ids)
          /\ png_ok + png_fail = NPoses * ok_glb

C16_Witness ==
    /\ mainpc = "returned" /\ Len(ids) = 1 /\ task[1].glb = Failed("http_404")
    /\ ok_glb = 0 /\ fail_glb = 1 /\ png_ok = 0 /\ png_fail = 0

\* the step in which a download_file call of task t returns success: "exists"
\* from the test of line 32, "downloaded" after os.replace (line 44-45)
SuccessReturn(t) ==
    /\ Running(t) /\ task'[t] # task[t]
    /\ \/ task[t].pc = "check" /\ task'[t].pc # "get"
       \/ task[t].pc = "replace" /\ task'[t].pc # "exc"

\* C18: when a download_file call returns success, its final path holds a
\* file of non-zero size.
C18_SuccessMeansPresent ==
    [][ \A t \in Tasks :
          SuccessReturn(t) =>
              LET out == OutPath(AvatarId(t), task[t].res)
              IN  fs'[out].present /\ fs'[out].data # {} ]_vars

\* the position of task t in the completion order, 0 if it has not ended
DoneAt(t) ==
    IF \E i \in DOMAIN completed : completed[i].task = t
    THEN CHOOSE i \in DOMAIN completed : completed[i].task = t
    ELSE 0

\* the position at which the result of task t was processed, 0 if it was not
ConsumedAt(t) == IF InConsumed(t) THEN CHOOSE i \in DOMAIN consumed : consumed[i] = t ELSE 0

\* task t ended after as_completed was called
EndedInLoop(t) == DoneAt(t) > 0 /\ completed[DoneAt(t)].waited

\* the aggregation loop consumes only results of ended tasks, and is never
\* blocked while some ended task has a result it did not consume
ConsumesAsCompleted ==
    /\ \A i \in DOMAIN consumed : Terminated(consumed[i])
    /\ (mainpc = "loop" /\ \E t \in Tasks : Terminated(t) /\ ~InConsumed(t)) =>
           ENABLED Main_Consume

\* C17 as stated: results are consumed only after their task ended, never
\* held back behind a running task, and in the order the tasks ended: if A
\* ended before B and B's result was processed, A's was processed before it.
C17_CompletionOrder ==
    /\ ConsumesAsCompleted
    /\ \A a, b \in Tasks :
          (Returned(a) /\ Returned(b) /\ DoneAt(a) < DoneAt(b) /\ InConsumed(b)) =>
              (InConsumed(a) /\ ConsumedAt(a) < ConsumedAt(b))

\* C17 amended: the order of processing is the order of ending for every
\* task that ended after as_completed was called; the results of the tasks
\* that had ended before are processed before those, in no particular order.
C17_CompletionOrderInLoop ==
    /\ ConsumesAsCompleted
    /\ \A a, b \in Tasks :
          (DoneAt(a) > 0 /\ DoneAt(a) < DoneAt(b) /\ EndedInLoop(b) /\ InConsumed(b)) =>
              (InConsumed(a) /\ ConsumedAt(a) < ConsumedAt(b))

C17_Witness ==
    /\ consumed = << 2, 1 >>
    /\ DoneAt(2) = 1 /\ DoneAt(1) = 2
    /\ EndedInLoop(1)

\* s without its leading and trailing characters of the set: what lies
\* between the first and the last character of s that is not in the set
Trimmed(s, chars) ==
    LET keep == { k \in 1..Len(s) : SubSeq(s, k, k) \notin chars }
    IN  IF keep = {} THEN ""
        ELSE SubSeq(s, CHOOSE k \in keep : \A m \in keep : k <= m,
                       CHOOSE k \in keep : \A m \in keep : m <= k)

AllHex(s) == \A k \in 1..Len(s) : SubSeq(s, k, k) \in HexDigits

\* the cuts of s into a non-empty hex string and nothing or ".glb"
HexCuts(s) ==
    { k \in 1..Len(s) : AllHex(SubSeq(s, 1, k)) /\ SubSeq(s, k + 1, Len(s)) \in { "", ".glb" } }

\* C14: a line that, without its surrounding white space, then double quotes,
\* then single quotes, is a non-empty hex string with or without a trailing
\* ".glb" adds the hex string to ids; a line of white space only changes
\* neither ids nor bad; every other line adds one to bad and nothing to ids;
\* so ids, bad and the blank lines add up to the lines parsed.
C14_InputParsing ==
    /\ [] (Len(ids) + bad + nblank = IF mainpc = "parseline" THEN nread - 1 ELSE nread)
    /\ [][ mainpc = "parseline" =>
             LET w == Trimmed(line, Whitespace)
                 s == Trimmed(Trimmed(w, { "\"" }), { "'" })
             IN  IF HexCuts(s) # {}
                 THEN /\ ids' = Append(ids, SubSeq(s, 1, CHOOSE k \in HexCuts(s) : TRUE))
                      /\ bad' = bad /\ nblank' = nblank
                 ELSE IF w = ""
                      THEN ids' = ids /\ bad' = bad /\ nblank' = nblank + 1
                      ELSE ids' = ids /\ bad' = bad + 1 /\ nblank' = nblank ]_vars

C14_Witness ==
    /\ mainpc = "readline" /\ nread = 3
    /\ ids = << "aF0" >> /\ bad = 1 /\ nblank = 1

====
